---- MODULE Spec2Model ----
(***************************************************************************)
(* A model of index-pool (src/src/lib.rs): Pool<T>, a BTreeMap from index  *)
(* key to a Vec of Inner<T> entries behind one RwLock, and Reusable<T>,    *)
(* the guard that re-attaches its object when dropped.                     *)
(*                                                                         *)
(* Keys (Rust Strings) are sequences of character codes, so that the       *)
(* BTreeMap's ordering and String::is_empty are computed, not assumed.     *)
(* Objects of type T are identified by the order of their construction.    *)
(* Time is counted in whole milliseconds, the unit in which                *)
(* Inner::expired compares (as_millis on both sides).                      *)
(*                                                                         *)
(* Spec         : one caller, every operation is one atomic action.        *)
(* SpecPull     : Spec's retrieve, pull and drop on a pool stocked by      *)
(*                attach calls.                                            *)
(* SpecPullDrop : Spec without attach; the keys are not empty.             *)
(* SpecChurn    : one caller pulling a new key each time.                  *)
(* SpecConc     : several threads, one action per lock acquisition.        *)
(***************************************************************************)
EXTENDS Integers, Sequences, FiniteSets, TLC

\* ---------------------------------------------------------------- bounds
MaxIndexes == 2      \* max_pool_indexes ranges over 1..MaxIndexes
MaxSingle == 2       \* max_single_pool_size ranges over 1..MaxSingle
MaxExpiration == 1   \* expiration ranges over 0..MaxExpiration (ms)
MaxTime == 1         \* the clock runs from 0 to MaxTime (ms)
MaxObjects == 3      \* objects constructed in one run
MaxGuards == 2       \* guards created in one run
NumThreads == 2      \* threads sharing the pool in SpecConc
MaxStored == 6       \* entries attached to one key before a run of SpecPull

\* "", "ab", "b"
Keys == {<<>>, <<1, 2>>, <<2>>}

VARIABLES
    max_pool_indexes,      \* Pool.max_pool_indexes
    max_single_pool_size,  \* Pool.max_single_pool_size
    expiration,            \* Pool.expiration, in ms
    objects,               \* Pool.objects: key -> sequence of Inner
    now,                   \* Instant::now(), in ms
    guards,                \* every Reusable created so far, in creation order
    held,                  \* objects a caller owns after detach()
    born,                  \* born[o]: the time object o was first inserted
    last,                  \* the operation that produced this state
    threads,               \* SpecConc: each thread's position and locals
    used                   \* SpecChurn: the keys pull was called with

vars == <<max_pool_indexes, max_single_pool_size, expiration, objects, now,
          guards, held, born, last, threads, used>>

config == <<max_pool_indexes, max_single_pool_size, expiration>>

\* ------------------------------------------------------------ String, map
\* String's Ord: lexicographic, a proper prefix sorts first.
RECURSIVE StrLess(_, _)
StrLess(a, b) ==
    IF a = <<>> THEN b # <<>>
    ELSE IF b = <<>> THEN FALSE
    ELSE IF Head(a) # Head(b) THEN Head(a) < Head(b)
    ELSE StrLess(Tail(a), Tail(b))

\* BTreeMap::iter().next(): the entry with the smallest key.
first_key(objs) ==
    CHOOSE k \in DOMAIN objs : \A j \in DOMAIN objs : j = k \/ StrLess(k, j)

\* BTreeMap::remove
remove(objs, key) == [k \in (DOMAIN objs) \ {key} |-> objs[k]]

\* BTreeMap::insert: an existing value under key is replaced.
insert(objs, key, vec) ==
    [k \in (DOMAIN objs) \cup {key} |-> IF k = key THEN vec ELSE objs[k]]

\* BTreeMap::new()
EmptyMap == [k \in {} |-> <<>>]

\* Inner::new
Inner(object, start_time) == [inner |-> object, start_time |-> start_time]

\* expired that lets an entry live one millisecond longer
expired_late(e, t) == (t - e.start_time) > expiration + 1

\* Inner::expired at time t
expired(e, t) == (t - e.start_time) > expiration

\* ------------------------------------------------------------------ Pool
size(objs) == Cardinality(DOMAIN objs)

len(objs, item) == IF item \in DOMAIN objs THEN Len(objs[item]) ELSE 0

\* is_full that lets one index too many in
is_full_late(objs) == size(objs) > max_pool_indexes

is_full(objs) == size(objs) >= max_pool_indexes

\* The key expunge_oldest reads: String::new() unless the map has a first key.
oldest(objs) == IF DOMAIN objs # {} THEN first_key(objs) ELSE <<>>

expunge_oldest(objs) ==
    IF ~is_full(objs) THEN objs
    ELSE LET lastk == oldest(objs)
         IN  IF lastk # <<>> THEN remove(objs, lastk) ELSE objs

attach_time(objs, item, start_time, t) ==
    LET o1 == expunge_oldest(objs)
    IN  IF item \in DOMAIN o1
        THEN [o1 EXCEPT ![item] = Append(@, Inner(t, start_time))]
        ELSE insert(o1, item, <<Inner(t, start_time)>>)

\* attach that keeps the time an object was first inserted
attach_stale(objs, item, t) ==
    attach_time(objs, item, IF t <= Len(born) THEN born[t] ELSE now, t)

\* Pool::attach: the entry is stamped Instant::now().
attach(objs, item, t) == attach_time(objs, item, now, t)

\* Option<Reusable>
None == [some |-> FALSE, item |-> <<>>, start_time |-> 0, data |-> 0]

\* Reusable::new
Reusable(item, start_time, t) ==
    [some |-> TRUE, item |-> item, start_time |-> start_time, data |-> t]

\* pop that reads the last element and leaves it in the vector
pop_keep(vec) == vec

\* Vec::pop on the sub-pool: the vector without its last element.
pop(vec) == SubSeq(vec, 1, Len(vec) - 1)

\* the trim that starts one entry late
trim_late(vec) == IF Len(vec) > max_single_pool_size + 1 THEN pop(vec) ELSE vec

\* The overflow trim of try_pull.
trim(vec) == IF Len(vec) > max_single_pool_size THEN pop(vec) ELSE vec

\* try_pull that looks the sub-pool up with entry(item).or_default()
try_pull_entry(objs, item) ==
    LET o1 == IF item \in DOMAIN objs THEN objs ELSE insert(objs, item, <<>>)
        v1 == trim(o1[item])
    IN  IF Len(v1) > 0
        THEN LET object == v1[Len(v1)]
                 o2 == [o1 EXCEPT ![item] = pop(v1)]
             IN  IF expired(object, now)
                 THEN [objects |-> o2, ret |-> None]
                 ELSE [objects |-> o2,
                       ret |-> Reusable(item, object.start_time, object.inner)]
        ELSE [objects |-> [o1 EXCEPT ![item] = v1], ret |-> None]

\* Pool::try_pull: the map afterwards and the Option returned.
try_pull(objs, item) ==
    IF item \in DOMAIN objs
    THEN LET v1 == trim(objs[item])
         IN  IF Len(v1) > 0
             THEN LET object == v1[Len(v1)]
                      o2 == [objs EXCEPT ![item] = pop(v1)]
                  IN  IF expired(object, now)
                      THEN [objects |-> o2, ret |-> None]
                      ELSE [objects |-> o2,
                            ret |-> Reusable(item, object.start_time, object.inner)]
             ELSE [objects |-> [objs EXCEPT ![item] = v1], ret |-> None]
    ELSE [objects |-> objs, ret |-> None]

\* The loop of Pool::pull: n calls of fallback(), each result attached.
\* Objects are numbered from id on.
RECURSIVE attach_batch(_, _, _, _)
attach_batch(objs, item, n, id) ==
    IF n = 0 THEN objs
    ELSE attach_batch(attach(objs, item, id), item, n - 1, id + 1)

\* Pool::pull: the map afterwards, the guard, and the number of fallback() calls.
RECURSIVE pull(_, _, _)
pull(objs, item, id) ==
    LET r == try_pull(objs, item)
    IN  IF r.ret.some
        THEN [objects |-> r.objects, ret |-> r.ret, ctor |-> 0]
        ELSE LET o2 == attach_batch(r.objects, item, max_single_pool_size, id)
                 p == pull(o2, item, id + max_single_pool_size)
             IN  [p EXCEPT !.ctor = @ + max_single_pool_size]

\* -------------------------------------------------------------- Reusable
\* A guard as recorded in `guards`: the Reusable's fields, and how often
\* Drop::drop and detach ran on it.
GuardRec(r) ==
    [item |-> r.item, start_time |-> r.start_time, data |-> r.data,
     returned |-> 0, detached |-> 0]

\* A guard that was consumed: its fields are gone, its history stays.
Consumed(g, returned, detached) ==
    [item |-> <<>>, start_time |-> 0, data |-> 0,
     returned |-> g.returned + returned, detached |-> g.detached + detached]

live(g) == g.returned = 0 /\ g.detached = 0

LiveGuards == {g \in 1..Len(guards) : live(guards[g])}

\* drop that stamps the returned entry with the time of the return
drop_now(objs, g) == attach_time(objs, g.item, now, g.data)

\* Drop for Reusable: the map after the object is re-attached.
drop(objs, g) == attach_time(objs, g.item, g.start_time, g.data)

\* detach without forget(self): Drop runs on the guard as well
detach_and_drop(objs, g) == drop(objs, g)

\* Reusable::detach: take() the object, then forget(self), so that Drop
\* does not run: the map is as it was.
detach(objs, g) == objs

\* ------------------------------------------------------------- operations
\* A thread outside any call. Inside attach_time a thread holds the call's
\* arguments (item, start_time, t) and expunge_oldest's local `last` (lastk);
\* inside pull, also the number of loop iterations left.
Idle == [pc |-> "idle", op |-> "none", item |-> <<>>, start_time |-> 0, t |-> 0,
         lastk |-> <<>>, left |-> 0]

Threads == 1..NumThreads

\* What `last` records of an operation: its name and arguments, the object
\* and guard it returned or consumed, the number of fallback() calls, the
\* resident keys and len(item) as they were just before it, and how far the
\* calls so far spell pull(item, f).detach() (1) and then attach(item, obj)
\* (2) with that guard and that object, or try_pull(item) on a sub-pool
\* whose entries have all expired (3), then pull(item, f) (4), then the drop
\* of that guard (5).
NoOp == [op |-> "init", item |-> <<>>, obj |-> 0, guard |-> 0, ctor |-> 0,
         pkeys |-> {}, plen |-> 0, chain |-> 0]

Op(name, item) ==
    [NoOp EXCEPT !.op = name, !.item = item, !.pkeys = DOMAIN objects,
                 !.plen = len(objects, item)]

Init ==
    /\ max_pool_indexes \in 1..MaxIndexes
    /\ max_single_pool_size \in 1..MaxSingle
    /\ expiration \in 0..MaxExpiration
    /\ objects = EmptyMap
    /\ now = 0
    /\ guards = <<>>
    /\ held = {}
    /\ born = <<>>
    /\ last = NoOp
    /\ threads = [t \in Threads |-> Idle]
    /\ used = {}

NextId == Len(born) + 1

\* item's sub-pool holds entries, and each of them is expired
AllExpired(objs, item) ==
    /\ len(objs, item) >= 1
    /\ \A i \in 1..Len(objs[item]) : expired(objs[item][i], now)

\* born extended by n objects constructed now
Construct(n) == born \o [i \in 1..n |-> now]

\* pool.attach(item, T) with an object the caller has just built
Attach(item) ==
    /\ NextId <= MaxObjects
    /\ objects' = attach(objects, item, NextId)
    /\ born' = Construct(1)
    /\ last' = [Op("attach", item) EXCEPT !.obj = NextId]
    /\ UNCHANGED <<config, used, now, guards, held, threads>>

\* pool.attach(item, obj) with an object obtained from detach()
Reattach(item, obj) ==
    /\ obj \in held
    /\ objects' = attach(objects, item, obj)
    /\ held' = held \ {obj}
    /\ last' = [Op("reattach", item) EXCEPT
                   !.obj = obj,
                   !.chain = IF last.op = "detach" /\ last.chain = 1
                                /\ last.obj = obj /\ last.item = item
                             THEN 2 ELSE 0]
    /\ UNCHANGED <<config, used, now, guards, born, threads>>

\* pool.try_pull(item), the spec's retrieve
Retrieve(item) ==
    LET r == try_pull(objects, item)
    IN  /\ r.ret.some => Len(guards) < MaxGuards
        /\ objects' = r.objects
        /\ guards' = IF r.ret.some THEN Append(guards, GuardRec(r.ret)) ELSE guards
        /\ last' = [Op("retrieve", item) EXCEPT
                       !.obj = r.ret.data,
                       !.guard = IF r.ret.some THEN Len(guards) + 1 ELSE 0,
                       !.chain = IF AllExpired(objects, item) THEN 3 ELSE 0]
        /\ UNCHANGED <<config, used, now, held, born, threads>>

\* pool.pull(item, fallback), when it makes at most room calls of fallback()
PullWith(item, room) ==
    /\ Len(guards) < MaxGuards
    /\ LET p == pull(objects, item, NextId)
       IN  /\ p.ctor <= room
           /\ objects' = p.objects
           /\ guards' = Append(guards, GuardRec(p.ret))
           /\ born' = Construct(p.ctor)
           /\ last' = [Op("pull", item) EXCEPT
                           !.obj = p.ret.data,
                           !.guard = Len(guards) + 1, !.ctor = p.ctor,
                           !.chain = IF last.op = "retrieve" /\ last.chain = 3
                                        /\ last.item = item
                                     THEN 4 ELSE 0]
    /\ UNCHANGED <<config, used, now, held, threads>>

\* pool.pull(item, fallback)
Pull(item) == PullWith(item, MaxObjects - Len(born))

\* a guard goes out of scope: Drop for Reusable
DropGuard(g) ==
    /\ g \in LiveGuards
    /\ objects' = drop(objects, guards[g])
    /\ guards' = [guards EXCEPT ![g] = Consumed(@, 1, 0)]
    /\ last' = [Op("drop", guards[g].item) EXCEPT
                   !.obj = guards[g].data, !.guard = g,
                   !.chain = IF last.op = "pull" /\ last.chain = 4
                                /\ last.guard = g
                             THEN 5 ELSE 0]
    /\ UNCHANGED <<config, used, now, held, born, threads>>

\* guard.detach(): the caller receives the object; Drop::drop runs on the
\* guard only if detach did not forget it, and then the map changes.
Detach(g) ==
    /\ g \in LiveGuards
    /\ objects' = detach(objects, guards[g])
    /\ guards' = [guards EXCEPT
                     ![g] = Consumed(@, IF objects' = objects THEN 0 ELSE 1, 1)]
    /\ held' = held \cup {guards[g].data}
    /\ last' = [Op("detach", guards[g].item) EXCEPT
                   !.obj = guards[g].data, !.guard = g,
                   !.chain = IF last.op = "pull" /\ last.guard = g THEN 1 ELSE 0]
    /\ UNCHANGED <<config, used, now, born, threads>>

\* the caller drops an object it detached
DropObject(obj) ==
    /\ obj \in held
    /\ held' = held \ {obj}
    /\ last' = [Op("dropobj", <<>>) EXCEPT !.obj = obj]
    /\ UNCHANGED <<config, used, objects, now, guards, born, threads>>

\* a millisecond passes
Tick ==
    /\ now < MaxTime
    /\ now' = now + 1
    /\ last' = Op("tick", <<>>)
    /\ UNCHANGED <<config, used, objects, guards, held, born, threads>>

Next ==
    \/ \E item \in Keys : Attach(item)
    \/ \E item \in Keys, obj \in held : Reattach(item, obj)
    \/ \E item \in Keys : Retrieve(item)
    \/ \E item \in Keys : Pull(item)
    \/ \E g \in LiveGuards : DropGuard(g)
    \/ \E g \in LiveGuards : Detach(g)
    \/ \E obj \in held : DropObject(obj)
    \/ Tick

Spec == Init /\ [][Next]_vars

\* ------------------------------------------- one caller, a stocked pool
\* The times of n attach calls made one after the other up to time t.
Stamps(n, t) ==
    {st \in [1..n -> 0..t] : \A i \in 1..n : \A j \in i..n : st[i] <= st[j]}

\* The pool after attach(item, T::new()) was called n times on a new pool
\* of two indexes or more, which one key does not fill, so that no attach
\* evicted anything: item's sub-pool holds the objects 1..n in the order of
\* their attach, each stamped with the time of its attach.
InitPull ==
    /\ max_pool_indexes \in 2..MaxIndexes
    /\ max_single_pool_size \in 1..MaxSingle
    /\ expiration \in 0..MaxExpiration
    /\ now \in 0..MaxTime
    /\ \E item \in Keys, n \in 1..MaxStored : \E st \in Stamps(n, now) :
          /\ objects = insert(EmptyMap, item, [i \in 1..n |-> Inner(i, st[i])])
          /\ born = st
    /\ guards = <<>>
    /\ held = {}
    /\ last = NoOp
    /\ threads = [t \in Threads |-> Idle]
    /\ used = {}

NextPull ==
    \/ \E item \in Keys : PullWith(item, MaxStored * MaxSingle)
    \/ \E item \in Keys : Retrieve(item)
    \/ \E g \in LiveGuards : DropGuard(g)
    \/ Tick

SpecPull == InitPull /\ [][NextPull]_vars

\* ------------------------------------------------- operations, per thread
\* One action per lock acquisition: a read() or write() guard is held for
\* one statement of lib.rs, and released before the next.

Enter(th, op, item, start_time, t, left) ==
    [threads EXCEPT ![th] = [pc |-> "full", op |-> op, item |-> item,
                             start_time |-> start_time, t |-> t,
                             lastk |-> <<>>, left |-> left]]

\* attach_time returned: back in pull's loop, or back to the caller.
Leave(th) ==
    [threads EXCEPT ![th] = IF @.op = "pull"
                            THEN [@ EXCEPT !.pc = "loop", !.t = 0, !.lastk = <<>>]
                            ELSE Idle]

\* pool.attach(item, T::new()): Instant::now() is read, attach_time entered
CAttach(th, item) ==
    /\ threads[th].pc = "idle"
    /\ NextId <= MaxObjects
    /\ born' = Construct(1)
    /\ threads' = Enter(th, "attach", item, now, NextId, 0)
    /\ UNCHANGED <<config, used, objects, now, guards, held, last>>

\* Drop for Reusable: take() the object, attach_time entered
CDrop(th, g) ==
    /\ threads[th].pc = "idle"
    /\ g \in LiveGuards
    /\ guards' = [guards EXCEPT ![g] = Consumed(@, 1, 0)]
    /\ threads' = Enter(th, "drop", guards[g].item, guards[g].start_time,
                        guards[g].data, 0)
    /\ UNCHANGED <<config, used, objects, now, held, born, last>>

\* guard.detach(): no lock is taken
CDetach(g) ==
    /\ g \in LiveGuards
    /\ objects' = detach(objects, guards[g])
    /\ guards' = [guards EXCEPT
                     ![g] = Consumed(@, IF objects' = objects THEN 0 ELSE 1, 1)]
    /\ held' = held \cup {guards[g].data}
    /\ UNCHANGED <<config, used, now, born, last, threads>>

\* pool.try_pull(item): the write guard lives for the whole match
CRetrieve(item) ==
    LET r == try_pull(objects, item)
    IN  /\ r.ret.some => Len(guards) < MaxGuards
        /\ objects' = r.objects
        /\ guards' = IF r.ret.some THEN Append(guards, GuardRec(r.ret)) ELSE guards
        /\ UNCHANGED <<config, used, now, held, born, last, threads>>

\* pool.pull(item, fallback): its try_pull, on entry and on each recursive call
CPull(th, item) ==
    /\ \/ threads[th].pc = "idle"
       \/ threads[th].pc = "retry" /\ threads[th].item = item
    /\ Len(guards) < MaxGuards
    /\ LET r == try_pull(objects, item)
       IN  /\ objects' = r.objects
           /\ guards' = IF r.ret.some THEN Append(guards, GuardRec(r.ret))
                        ELSE guards
           /\ threads' = [threads EXCEPT ![th] =
                  IF r.ret.some THEN Idle
                  ELSE [Idle EXCEPT !.pc = "loop", !.op = "pull", !.item = item,
                                    !.left = max_single_pool_size]]
    /\ UNCHANGED <<config, used, now, held, born, last>>

\* one iteration of pull's for loop: fallback(), then attach; after the
\* last one, the recursive pull
CLoop(th) ==
    /\ threads[th].pc = "loop"
    /\ IF threads[th].left > 0
       THEN /\ NextId <= MaxObjects
            /\ born' = Construct(1)
            /\ threads' = Enter(th, "pull", threads[th].item, now, NextId,
                                threads[th].left - 1)
       ELSE /\ threads' = [threads EXCEPT ![th].pc = "retry"]
            /\ UNCHANGED born
    /\ UNCHANGED <<config, used, objects, now, guards, held, last>>

\* expunge_oldest: is_full() under a read lock
CIsFull(th) ==
    /\ threads[th].pc = "full"
    /\ threads' = [threads EXCEPT ![th].pc =
                      IF is_full(objects) THEN "first" ELSE "contains"]
    /\ UNCHANGED <<config, used, objects, now, guards, held, born, last>>

\* expunge_oldest: the first key, read under a read lock
CFirst(th) ==
    /\ threads[th].pc = "first"
    /\ threads' = [threads EXCEPT
                      ![th].lastk = oldest(objects),
                      ![th].pc = IF oldest(objects) # <<>> THEN "remove"
                                 ELSE "contains"]
    /\ UNCHANGED <<config, used, objects, now, guards, held, born, last>>

\* expunge_oldest: remove(&last) under the write lock
CRemove(th) ==
    /\ threads[th].pc = "remove"
    /\ objects' = remove(objects, threads[th].lastk)
    /\ threads' = [threads EXCEPT ![th].pc = "contains"]
    /\ UNCHANGED <<config, used, now, guards, held, born, last>>

\* attach_time: contains_key(item) under a read lock
CContains(th) ==
    /\ threads[th].pc = "contains"
    /\ threads' = [threads EXCEPT ![th].pc =
                      IF threads[th].item \in DOMAIN objects THEN "push"
                      ELSE "insert"]
    /\ UNCHANGED <<config, used, objects, now, guards, held, born, last>>

\* attach_time: get_mut(item).unwrap().push(..) under the write lock;
\* unwrap panics when the key is gone: the object is dropped and the call
\* the thread was in (op) never returns
CPush(th) ==
    /\ threads[th].pc = "push"
    /\ LET me == threads[th]
       IN  IF me.item \in DOMAIN objects
           THEN /\ objects' = [objects EXCEPT
                                  ![me.item] = Append(@, Inner(me.t, me.start_time))]
                /\ threads' = Leave(th)
           ELSE /\ objects' = objects
                /\ threads' = [threads EXCEPT
                                  ![th] = [Idle EXCEPT !.pc = "panicked",
                                                       !.op = me.op]]
    /\ UNCHANGED <<config, used, now, guards, held, born, last>>

\* attach_time: insert(item, vec![..]) under the write lock
CInsert(th) ==
    /\ threads[th].pc = "insert"
    /\ LET me == threads[th]
       IN  objects' = insert(objects, me.item, <<Inner(me.t, me.start_time)>>)
    /\ threads' = Leave(th)
    /\ UNCHANGED <<config, used, now, guards, held, born, last>>

\* The threads use the non-empty keys; the empty key is Spec's.
ConcKeys == Keys \ {<<>>}

NextConc ==
    \/ \E th \in Threads, item \in ConcKeys : CAttach(th, item)
    \/ \E th \in Threads, g \in LiveGuards : CDrop(th, g)
    \/ \E g \in LiveGuards : CDetach(g)
    \/ \E item \in ConcKeys : CRetrieve(item)
    \/ \E th \in Threads, item \in ConcKeys : CPull(th, item)
    \/ \E th \in Threads : CLoop(th)
    \/ \E th \in Threads : CIsFull(th)
    \/ \E th \in Threads : CFirst(th)
    \/ \E th \in Threads : CRemove(th)
    \/ \E th \in Threads : CContains(th)
    \/ \E th \in Threads : CPush(th)
    \/ \E th \in Threads : CInsert(th)

\* The clock stands still in SpecConc, so one expiration is enough.
InitConc == Init /\ expiration = MaxExpiration

SpecConc == InitConc /\ [][NextConc]_vars

\* ------------------------------------------ one caller, a new key per pull
\* The keys of the churn: non-empty, and more of them than indexes.
ChurnKeys == ConcKeys \cup {<<1>>, <<2, 1>>}

InitChurn ==
    /\ max_pool_indexes \in 1..(Cardinality(ChurnKeys) - 1)
    /\ max_single_pool_size \in 1..MaxSingle
    /\ expiration \in 0..MaxExpiration
    /\ objects = EmptyMap
    /\ now = 0
    /\ guards = <<>>
    /\ held = {}
    /\ born = <<>>
    /\ last = NoOp
    /\ threads = [t \in Threads |-> Idle]
    /\ used = {}

\* pool.pull(item, fallback) with a key that was never used, once the
\* guard of the pull before it has been dropped
ChurnPull(item) ==
    /\ item \notin used
    /\ LiveGuards = {}
    /\ LET p == pull(objects, item, NextId)
       IN  /\ objects' = p.objects
           /\ guards' = Append(guards, GuardRec(p.ret))
           /\ born' = Construct(p.ctor)
           /\ last' = [Op("pull", item) EXCEPT !.obj = p.ret.data,
                           !.guard = Len(guards) + 1, !.ctor = p.ctor]
    /\ used' = used \cup {item}
    /\ UNCHANGED <<config, now, held, threads>>

NextChurn ==
    \/ \E item \in ChurnKeys : ChurnPull(item)
    \/ \E g \in LiveGuards : DropGuard(g)
    \/ Tick

SpecChurn == InitChurn /\ [][NextChurn]_vars

\* ------------------------------------- one caller that never calls attach
\* Objects enter the pool through pull's batch and through guard drops
\* only. The keys are not empty, so that expunge_oldest finds its key
\* whenever the pool is full.
NextPullDrop ==
    \/ \E item \in ConcKeys : Retrieve(item)
    \/ \E item \in ConcKeys : Pull(item)
    \/ \E g \in LiveGuards : DropGuard(g)
    \/ \E g \in LiveGuards : Detach(g)
    \/ \E obj \in held : DropObject(obj)
    \/ Tick

SpecPullDrop == Init /\ [][NextPullDrop]_vars

\* ================================================================ claims
\* The objects constructed by the last operation.
Made == (Len(born) - last.ctor + 1)..Len(born)

\* The positions of the pool that hold object o.
Stored(objs, o) ==
    UNION {{<<k, i>> : i \in {j \in 1..Len(objs[k]) : objs[k][j].inner = o}} :
           k \in DOMAIN objs}

\* The most recently inserted entry of item's sub-pool.
Top(objs, item) == objs[item][Len(objs[item])]

\* The smallest of a set of keys in String's order.
Smallest(keys) == CHOOSE k \in keys : \A j \in keys : ~StrLess(j, k)

InFlight(th) == threads[th].t # 0

\* The number of places object o is in: sub-pool entries, live guards,
\* callers that detached it, attach_time calls that have not inserted it yet.
Places(o) ==
    Cardinality(Stored(objects, o))
    + Cardinality({g \in LiveGuards : guards[g].data = o})
    + (IF o \in held THEN 1 ELSE 0)
    + Cardinality({th \in Threads : threads[th].t = o})

\* C1: under every interleaving of the threads' steps, every constructed
\* object is in at most one place: one sub-pool entry, one live guard, one
\* caller that detached it, or one attach call still in progress.
C1_ExclusiveOwnership == \A o \in 1..Len(born) : Places(o) <= 1

\* C1 witness: a thread is inside attach_time with its object while another
\* object is held by a live guard and a third is stored in a sub-pool.
C1_Witness ==
    /\ \E th \in Threads : InFlight(th) /\ threads[th].pc = "push"
    /\ LiveGuards # {}
    /\ \E k \in DOMAIN objects : Len(objects[k]) > 0

\* C2 (the claim as stated): size() <= max_pool_indexes in every state, and
\* an attach of a key that is not resident while size() < max_pool_indexes
\* increases size() by exactly 1.
C2_Claim ==
    /\ size(objects) <= max_pool_indexes
    /\ (last.op \in {"attach", "reattach"} /\ last.item \notin last.pkeys
        /\ Cardinality(last.pkeys) < max_pool_indexes)
       => size(objects) = Cardinality(last.pkeys) + 1

\* C3 (the claim as stated): after pull(key, ctor) on an empty pool, the guard
\* holds an object built by ctor in that call and
\* length(key) = max_single_pool_size - 1.
C3_Claim ==
    (last.op = "pull" /\ last.pkeys = {})
    => /\ last.obj \in Made
       /\ len(objects, last.item) = max_single_pool_size - 1

\* C4 (the claim as stated): dropping a guard obtained for key k makes
\* length(k) one greater than it was, and the returned object is the most
\* recently inserted entry of k's sub-pool.
C4_Claim ==
    last.op = "drop"
    => /\ len(objects, last.item) = last.plen + 1
       /\ Top(objects, last.item).inner = last.obj

\* C5: no guard is both returned and detached; detach() leaves the map as
\* it was; and neither detach nor the drop of a detached object puts the
\* object into the pool.
C5_GuardLifecycle ==
    [][/\ \A g \in 1..Len(guards') :
             guards'[g].returned + guards'[g].detached <= 1
       /\ last'.op \in {"detach", "dropobj"}
          => /\ objects' = objects
             /\ Stored(objects', last'.obj) = {}
       /\ last'.op = "detach"
          => /\ guards'[last'.guard].detached = 1
             /\ last'.obj \in held']_vars

\* C5 witness: a detached object was dropped by its caller, in a run where
\* one guard ended Detached and another ended Returned.
C5_Witness ==
    /\ last.op = "dropobj"
    /\ \E g \in 1..Len(guards) : guards[g].detached = 1
    /\ \E g \in 1..Len(guards) : guards[g].returned = 1
    /\ \E k \in DOMAIN objects : Len(objects[k]) > 0

\* C6 (the claim as stated): after pull(key, ctor).detach(), attach(key, obj)
\* makes length(key) one greater than before the attach, and the next
\* retrieve(key) returns a guard holding obj.
C6_Claim ==
    [][/\ (last'.op = "reattach" /\ last'.chain = 2)
          => len(objects', last'.item) = last'.plen + 1
       /\ (last.op = "reattach" /\ last.chain = 2
           /\ last'.op = "retrieve" /\ last'.item = last.item)
          => (last'.guard # 0 /\ last'.obj = last.obj)]_vars

\* No guard was ever detached.
NoDetach == \A g \in 1..Len(guards) : guards[g].detached = 0

\* C7: in a run without detach, every stored entry and every live guard
\* carries the time its object was first inserted (a guard drop keeps it),
\* and no retrieve or pull hands out an object older than expiration.
C7_ClockSurvives ==
    NoDetach
    => /\ \A k \in DOMAIN objects : \A i \in 1..Len(objects[k]) :
             objects[k][i].start_time = born[objects[k][i].inner]
       /\ \A g \in LiveGuards : guards[g].start_time = born[guards[g].data]
       /\ (last.op \in {"retrieve", "pull"} /\ last.guard # 0)
          => now - born[last.obj] <= expiration

\* C7 witness: a guard drop re-inserted an object after the clock had
\* advanced past the object's first insertion.
C7_Witness ==
    /\ NoDetach
    /\ last.op = "drop"
    /\ now > born[last.obj]
    /\ Top(objects, last.item).inner = last.obj

\* C8 (the claim as stated): after detach() and attach(key, obj), the new
\* entry carries the timestamp the object got when it was first inserted.
C8_Claim ==
    last.op = "reattach"
    => Top(objects, last.item).start_time = born[last.obj]

\* C8 (amended): an entry's timestamp is the time of the attach call that
\* inserted it: after detach() and attach(key, obj) the new entry for obj
\* carries the time of that attach. Only a guard drop keeps a timestamp:
\* the entry it inserts carries the guard's start_time.
C8_Amended ==
    [][/\ last'.op \in {"attach", "reattach"}
          => /\ Top(objects', last'.item).inner = last'.obj
             /\ Top(objects', last'.item).start_time = now'
       /\ last'.op = "drop"
          => /\ Top(objects', last'.item).inner = last'.obj
             /\ Top(objects', last'.item).start_time
                    = guards[last'.guard].start_time]_vars

\* C8 witness: a detached object was attached again after the clock had
\* advanced past its first insertion.
C8_Witness ==
    /\ last.op = "reattach"
    /\ now > born[last.obj]

\* C9 (the claim as stated): attach(key, obj) on a full pool removes the
\* smallest resident key with all its entries and nothing else, then inserts
\* obj; on a pool that is not full it removes no key; in both cases no
\* sub-pool other than the evicted one and key's changes.
C9_Claim ==
    [][last'.op \in {"attach", "reattach"}
       => LET key == last'.item
              kept == IF size(objects) >= max_pool_indexes
                      THEN (DOMAIN objects) \ {Smallest(DOMAIN objects)}
                      ELSE DOMAIN objects
          IN  /\ DOMAIN objects' = kept \cup {key}
              /\ \A k \in kept \ {key} : objects'[k] = objects[k]
              /\ objects'[key] = (IF key \in kept THEN objects[key] ELSE <<>>)
                                 \o <<Inner(last'.obj, now)>>]_vars

\* C10: retrieve(key) on a sub-pool of n entries leaves the first n-1 when
\* 1 <= n <= max_single_pool_size, and a guard it returns holds the n-th;
\* it leaves the first n-2 when n > max_single_pool_size, and a guard it
\* returns holds entry n-1. No other sub-pool changes and the resident keys
\* stay, also when the sub-pool becomes empty.
C10_RetrievePops ==
    [][last'.op = "retrieve"
       => LET key == last'.item
              n == len(objects, key)
              cut == IF n > max_single_pool_size THEN 2 ELSE 1
          IN  /\ DOMAIN objects' = DOMAIN objects
              /\ \A k \in (DOMAIN objects) \ {key} : objects'[k] = objects[k]
              /\ n >= 1
                 => /\ objects'[key] = SubSeq(objects[key], 1, n - cut)
                    /\ last'.guard # 0
                       => last'.obj = objects[key][n - cut + 1].inner]_vars

\* C10 witness: a retrieve on an overflowing sub-pool returned a guard and
\* left the sub-pool empty.
C10_Witness ==
    /\ last.op = "retrieve"
    /\ last.plen > max_single_pool_size
    /\ last.guard # 0
    /\ len(objects, last.item) = 0

\* C11: retrieve(key) hands out the entry it pops exactly when that entry's
\* age does not exceed expiration (an age equal to expiration is live). When
\* the popped entry is expired, retrieve reports not found and the entries
\* below it stay in place and in order, expired or not, and every key stays
\* resident. The passage of time alone changes no sub-pool and no key.
C11_LazyExpiration ==
    [][/\ (last'.op = "retrieve" /\ len(objects, last'.item) >= 1)
          => LET key == last'.item
                 n == len(objects, key)
                 cut == IF n > max_single_pool_size THEN 2 ELSE 1
                 popped == objects[key][n - cut + 1]
             IN  /\ (last'.guard = 0) <=> (now - popped.start_time > expiration)
                 /\ last'.guard = 0
                    => /\ DOMAIN objects' = DOMAIN objects
                       /\ objects'[key] = SubSeq(objects[key], 1, n - cut)
                       /\ Stored(objects', popped.inner) = {}
       /\ last'.op = "tick" => objects' = objects]_vars

\* C11 witness: a retrieve popped an expired entry and reported not found,
\* and an entry that is expired too is still in the sub-pool.
C11_Witness ==
    /\ last.op = "retrieve"
    /\ last.guard = 0
    /\ last.plen >= 2
    /\ len(objects, last.item) >= 1
    /\ now - Top(objects, last.item).start_time > expiration

\* C12 (the claim as stated): a single pull(key, ctor) calls ctor either not
\* at all or exactly max_single_pool_size times, whatever the sub-pool holds.
C12_Claim ==
    last.op = "pull" => last.ctor \in {0, max_single_pool_size}

\* C13 (the claim as stated): once every entry under key has expired,
\* retrieve(key) reports not found; the pull(key, ctor) that follows returns
\* an object that ctor built during that pull; and when that guard is
\* dropped, the next retrieve(key) succeeds.
C13_Claim ==
    [][/\ (last'.op = "retrieve" /\ last'.chain = 3) => last'.guard = 0
       /\ (last'.op = "pull" /\ last'.chain = 4)
          => last'.obj > Len(born') - last'.ctor
       /\ (last.op = "drop" /\ last.chain = 5
           /\ last'.op = "retrieve" /\ last'.item = last.item)
          => last'.guard # 0]_vars

\* C14: a key that is not resident has len(key) = 0, and retrieve(key) on a
\* key that is not resident, or whose sub-pool is empty, reports not found
\* and leaves the map, the guards and the objects as they were.
C14_NotFoundNoChange ==
    [][/\ \A key \in Keys \ DOMAIN objects' : len(objects', key) = 0
       /\ (last'.op = "retrieve" /\ len(objects, last'.item) = 0)
          => /\ last'.guard = 0
             /\ objects' = objects
             /\ guards' = guards
             /\ held' = held
             /\ born' = born]_vars

\* C14 witness: retrieve reported not found on a resident key whose sub-pool
\* is empty, while another sub-pool holds an entry.
C14_Witness ==
    /\ last.op = "retrieve"
    /\ last.guard = 0
    /\ last.item \in DOMAIN objects
    /\ last.plen = 0
    /\ \E k \in DOMAIN objects : k # last.item /\ Len(objects[k]) > 0

\* C15 (the claim as stated): with one caller that never calls attach, so
\* that objects enter the pool through pull and guard drop only,
\* len(key) <= max_single_pool_size in every reachable state.
C15_Claim == \A key \in Keys : len(objects, key) <= max_single_pool_size

\* The number of entries in all sub-pools.
Entries(objs) ==
    Cardinality(UNION {{<<k, i>> : i \in 1..Len(objs[k])} : k \in DOMAIN objs})

\* No thread is inside a call.
AllIdle == \A th \in Threads : threads[th].pc = "idle"

\* C16 (the claim as stated): attach is atomic. When two attach calls, run
\* by the threads in any interleaving, have both returned, and the pool was
\* not full when either ran (two indexes or more, and nothing else was
\* called), the pool holds both objects: neither insertion is lost.
C16_Claim ==
    (/\ AllIdle
     /\ Len(born) = 2
     /\ guards = <<>>
     /\ max_pool_indexes >= 2)
    => Entries(objects) = 2

\* C17 (the claim as stated): the key attach saw resident with contains_key
\* is resident when attach pushes, so unwrap never meets an absent key and
\* no thread panics.
C17_Claim ==
    \A th \in Threads :
        /\ threads[th].pc = "push" => threads[th].item \in DOMAIN objects
        /\ threads[th].pc # "panicked"

\* C18 (the claim as stated, for finite runs): a pull that has started is
\* on its way to a guard: its thread is never stopped by a panic, after
\* which the pull returns nothing however the threads are scheduled.
C18_Claim ==
    \A th \in Threads : ~(threads[th].op = "pull" /\ threads[th].pc = "panicked")

\* No thread is inside attach_time.
NoAttachInProgress ==
    \A th \in Threads : threads[th].pc \in {"idle", "loop", "retry", "panicked"}

\* C19 (the claim as stated): with threads that attach and pull non-empty
\* keys, size() <= max_pool_indexes in every state in which no attach is
\* in progress.
C19_Claim == NoAttachInProgress => size(objects) <= max_pool_indexes

\* C20: when one caller keeps pulling a key it never used before, dropping
\* each guard before the next pull, every pull returns an object that its
\* own ctor calls built, and once max_pool_indexes distinct keys or more
\* have been pulled, max_pool_indexes - 1 <= size() <= max_pool_indexes
\* after every pull.
C20_Churn ==
    last.op = "pull"
    => /\ last.ctor = max_single_pool_size
       /\ last.obj \in Made
       /\ Cardinality(used) >= max_pool_indexes
          => /\ max_pool_indexes - 1 <= size(objects)
             /\ size(objects) <= max_pool_indexes

\* C20 witness: after more pulls than the pool has indexes, a pull left the
\* pool one index short of full; the pool has room for two indexes or more.
C20_Witness ==
    /\ last.op = "pull"
    /\ max_pool_indexes >= 2
    /\ Cardinality(used) > max_pool_indexes
    /\ size(objects) = max_pool_indexes - 1

====
